---- MODULE Spec2Model ----
(***************************************************************************)
(* Room membership registry, connection lifecycle and signaling relay of   *)
(* the video call backend (src/index.js), with the Room collection         *)
(* (src/unnamed/part_000, required as ./models/Room) its handlers look up, *)
(* update and delete documents in.                                         *)
(*                                                                         *)
(* JavaScript runs one handler at a time up to its next await, so every    *)
(* action below is one such run-to-completion segment of a handler.        *)
(* The variables sent, dbCalls and lastOp hold what the LAST segment did:  *)
(* the events it emitted per receiving socket, the Room model calls it     *)
(* issued, and which handler segment it was.                               *)
(***************************************************************************)
EXTENDS Naturals, Integers, Sequences, FiniteSets, Bags, TLC

\* ------------------------------------------------------------------ bounds
\* join-room events received in one run
MaxJoins == 3

\* socket.io ids, in the order the sockets are accepted
SocketNames == <<"s1", "s2", "s3">>
SocketIds == {SocketNames[i] : i \in DOMAIN SocketNames}
\* _id of the Room documents the collection holds when the server starts
RoomIds == {"r1", "r2"}
\* the display name the client behind each socket passes in join-room
UserNameOf == [s \in SocketIds |-> "user-" \o s]
Payloads == {"sdp1", "sdp2"}
\* Room _id values and socket.io ids are drawn from different alphabets, so no
\* room id is a socket id.
\* a value a client can send as target that names neither a socket nor a room
Stranger == "zz"
\* JavaScript undefined (a field never assigned, or left out of a payload)
Undefined == "undefined"

VARIABLES
    connected,      \* socket id -> "fresh" | "live" | "closed"
    socketRoomId,   \* socket.roomId
    socketUserName, \* socket.userName
    sioRooms,       \* socket.io adapter: the rooms each socket has joined
    activeRooms,    \* the registry: room id -> Map(socket id -> participant)
    roomDocs,       \* the Room collection: room id -> "active" | "inactive" |
                    \* "deleted" (the participants count a document stores is
                    \* read by no handler; the count written is in dbCalls)
    joins,          \* bag of join-room handler invocations waiting on an await
    nJoins,         \* join-room events received so far
    dbWrites,       \* rooms with a findByIdAndDelete of a disconnect handler in flight
    sent,           \* socket id -> events emitted to it by the last segment
    dbCalls,        \* Room model calls issued by the last segment
    lastOp          \* the last segment

vars == <<connected, socketRoomId, socketUserName, sioRooms, activeRooms,
          roomDocs, joins, nJoins, dbWrites, sent, dbCalls, lastOp>>

\* ------------------------------------------------------------- Map helpers
\* A Map keeps insertion order: a sequence of participants, one per socket id.
MapHas(users, id) == \E i \in DOMAIN users : users[i].socketId = id

MapDelete(users, id) == SelectSeq(users, LAMBDA u : u.socketId # id)

MapSet(users, id, val) ==
    IF MapHas(users, id)
    THEN [i \in DOMAIN users |-> IF users[i].socketId = id THEN val ELSE users[i]]
    ELSE Append(users, val)

RegistryHas(reg, r) == r \in DOMAIN reg

RegistryDelete(reg, r) == [x \in (DOMAIN reg) \ {r} |-> reg[x]]

RegistrySet(reg, r, users) ==
    [x \in (DOMAIN reg) \cup {r} |-> IF x = r THEN users ELSE reg[x]]

\* ---------------------------------------------------------------- emitting
Msg(event, socketId, userName, payload, users, message) ==
    [event |-> event, socketId |-> socketId, userName |-> userName,
     payload |-> payload, users |-> users, message |-> message]

NoSent == [t \in SocketIds |-> <<>>]

\* socket.emit(event, data): to the socket itself (recorded also when the
\* socket has closed meanwhile: the handler still makes the call)
EmitSelf(out, s, msg) == [out EXCEPT ![s] = Append(@, msg)]

\* faulty variant: socket.broadcast, every connected socket but the sender
RecipientsBroadcast(s, room) ==
    {t \in SocketIds : t # s /\ connected[t] = "live"}

\* the sockets socket.to(room) addresses: every connected socket in the
\* adapter room `room` (a socket's own id is a room holding just that socket)
\* except the sender
Recipients(s, room) ==
    {t \in SocketIds : /\ t # s
                       /\ connected[t] = "live"
                       /\ (t = room \/ room \in sioRooms[t])}

\* socket.to(room).emit(event, data)
EmitTo(out, s, room, msg) ==
    [t \in SocketIds |-> IF t \in Recipients(s, room) THEN Append(out[t], msg) ELSE out[t]]

DbCall(op, r, n) == [op |-> op, roomId |-> r, participants |-> n]

\* a handler segment: its event, its socket, the room and target it names, its
\* payload, the room whose Map it took the socket out of (left), whether it
\* deleted that room from the registry (emptied), and for a join the document
\* its lookup had answered (room)
OpLeft(name, s, r, target, payload, left, emptied) ==
    [name |-> name, socket |-> s, roomId |-> r, target |-> target, payload |-> payload,
     left |-> left, emptied |-> emptied, room |-> Undefined]

Op(name, s, r, target, payload) ==
    OpLeft(name, s, r, target, payload, Undefined, FALSE)

\* ------------------------------------------------------------------- Init
Init ==
    /\ connected = [s \in SocketIds |-> "fresh"]
    /\ socketRoomId = [s \in SocketIds |-> Undefined]
    /\ socketUserName = [s \in SocketIds |-> Undefined]
    /\ sioRooms = [s \in SocketIds |-> {}]
    /\ activeRooms = [r \in {} |-> << >>]
    /\ roomDocs = [r \in RoomIds |-> "active"]
    /\ joins = EmptyBag
    /\ nJoins = 0
    /\ dbWrites = {}
    /\ sent = NoSent
    /\ dbCalls = << >>
    /\ lastOp = Op("init", Undefined, Undefined, Undefined, Undefined)

\* ------------------------------------------------------- the Room collection
\* Room.findById(roomId): the document, or null
FindById(docs, r) == IF docs[r] \in {"active", "inactive"} THEN "doc" ELSE "null"

\* Room.findByIdAndDelete(roomId)
FindByIdAndDelete(docs, r) ==
    IF docs[r] \in {"active", "inactive"} THEN [docs EXCEPT ![r] = "deleted"] ELSE docs

\* --------------------------------------------------------------- connection
\* io.on('connection'): a new socket, in no room, with no roomId or userName
Connect(s) ==
    /\ connected[s] = "fresh"
    \* ids are handed out in the order the sockets are accepted
    /\ \A i \in DOMAIN SocketNames :
          (SocketNames[i] = s) => \A k \in 1..(i - 1) : connected[SocketNames[k]] # "fresh"
    /\ connected' = [connected EXCEPT ![s] = "live"]
    /\ sent' = NoSent
    /\ dbCalls' = << >>
    /\ lastOp' = Op("connection", s, Undefined, Undefined, Undefined)
    /\ UNCHANGED <<socketRoomId, socketUserName, sioRooms, activeRooms, roomDocs,
                   joins, nJoins, dbWrites>>

\* ---------------------------------------------------------------- join-room
\* a join-room invocation waiting on an await: its socket and payload, the
\* await it waits on, and `room`, the document the lookup answered
Join(s, r, n, pc) ==
    [socket |-> s, roomId |-> r, userName |-> n, pc |-> pc, room |-> Undefined]

One(j) == SetToBag({j})

\* join-room, up to `await Room.findById(roomId)`
JoinRoom(s, r, n) ==
    /\ connected[s] = "live"
    /\ nJoins < MaxJoins
    /\ nJoins' = nJoins + 1
    /\ joins' = joins (+) One(Join(s, r, n, "findById"))
    /\ sent' = NoSent
    /\ dbCalls' = <<DbCall("findById", r, 0)>>
    /\ lastOp' = Op("join-room", s, r, Undefined, Undefined)
    /\ UNCHANGED <<connected, socketRoomId, socketUserName, sioRooms, activeRooms,
                   roomDocs, dbWrites>>

\* the collection answers the lookup with the document: the handler goes on
\* at its next turn
FindByIdReturns(j) ==
    /\ BagIn(j, joins)
    /\ j.pc = "findById"
    /\ FindById(roomDocs, j.roomId) = "doc"
    /\ joins' = (joins (-) One(j)) (+)
                One([j EXCEPT !.pc = "resume", !.room = roomDocs[j.roomId]])
    /\ sent' = NoSent
    /\ dbCalls' = << >>
    /\ lastOp' = Op("db-findById", Undefined, Undefined, Undefined, Undefined)
    /\ UNCHANGED <<connected, socketRoomId, socketUserName, sioRooms, activeRooms,
                   roomDocs, nJoins, dbWrites>>

\* faulty variant: the previous room is left before the lookup's answer is
\* looked at
JoinDeniedAfterLeave(j, failed) ==
    /\ BagIn(j, joins)
    /\ j.pc = "findById"
    /\ failed \/ FindById(roomDocs, j.roomId) = "null"
    /\ joins' = joins (-) SetToBag({j})
    /\ activeRooms' =
         IF /\ socketRoomId[j.socket] # Undefined
            /\ RegistryHas(activeRooms, socketRoomId[j.socket])
         THEN LET roomUsers == MapDelete(activeRooms[socketRoomId[j.socket]], j.socket)
              IN  IF Len(roomUsers) = 0
                  THEN RegistryDelete(activeRooms, socketRoomId[j.socket])
                  ELSE RegistrySet(activeRooms, socketRoomId[j.socket], roomUsers)
         ELSE activeRooms
    /\ sent' = EmitSelf(NoSent, j.socket,
                        Msg("error", Undefined, Undefined, Undefined, << >>,
                            IF failed THEN "Failed to join room" ELSE "Room not found"))
    /\ dbCalls' = << >>
    /\ lastOp' = Op(IF failed THEN "join-failed" ELSE "join-not-found",
                    j.socket, j.roomId, Undefined, Undefined)
    /\ UNCHANGED <<connected, socketRoomId, socketUserName, sioRooms,
                   roomDocs, nJoins, dbWrites>>

\* the lookup answers null (no document), or rejects (failed): the handler
\* emits its error and returns. It reads and writes nothing else, so the
\* answer and the handler's last segment are one step.
JoinDenied(j, failed) ==
    /\ BagIn(j, joins)
    /\ j.pc = "findById"
    /\ failed \/ FindById(roomDocs, j.roomId) = "null"
    /\ joins' = joins (-) One(j)
    /\ sent' = EmitSelf(NoSent, j.socket,
                        Msg("error", Undefined, Undefined, Undefined, << >>,
                            IF failed THEN "Failed to join room" ELSE "Room not found"))
    /\ dbCalls' = << >>
    /\ lastOp' = Op(IF failed THEN "join-failed" ELSE "join-not-found",
                    j.socket, j.roomId, Undefined, Undefined)
    /\ UNCHANGED <<connected, socketRoomId, socketUserName, sioRooms, activeRooms,
                   roomDocs, nJoins, dbWrites>>

\* faulty variant: the emptied Map is left in the registry
LeavePreviousKeepsEmpty(reg, prev, s) ==
    IF prev # Undefined /\ RegistryHas(reg, prev)
    THEN RegistrySet(reg, prev, MapDelete(reg[prev], s))
    ELSE reg

\* faulty variant: the previous room is not left
LeavePreviousSkipped(reg, prev, s) == reg

\* faulty variant: the previous room is deleted with everyone in it
LeavePreviousDropsRoom(reg, prev, s) ==
    IF prev # Undefined /\ RegistryHas(reg, prev)
    THEN RegistryDelete(reg, prev)
    ELSE reg

\* "Leave any previous room": the registry after the join handler's leave
LeavePrevious(reg, prev, s) ==
    IF prev # Undefined /\ RegistryHas(reg, prev)
    THEN LET roomUsers == MapDelete(reg[prev], s)
         IN  IF Len(roomUsers) = 0
             THEN RegistryDelete(reg, prev)
             ELSE RegistrySet(reg, prev, roomUsers)
    ELSE reg

\* the room a leave takes socket s out of, if it is in that room's Map
LeftRoom(reg, room, s) ==
    IF room # Undefined /\ RegistryHas(reg, room) /\ MapHas(reg[room], s)
    THEN room ELSE Undefined

\* whether a leave deletes the room from the registry
Emptied(reg, room, s) ==
    /\ room # Undefined
    /\ RegistryHas(reg, room)
    /\ Len(MapDelete(reg[room], s)) = 0

\* ... and the user-left it emits to the previous room
LeavePreviousEmits(reg, prev, s) ==
    IF /\ prev # Undefined
       /\ RegistryHas(reg, prev)
       /\ Len(MapDelete(reg[prev], s)) # 0
    THEN EmitTo(NoSent, s, prev,
                Msg("user-left", s, Undefined, Undefined, << >>, Undefined))
    ELSE NoSent

\* "Add user to room"
AddUser(reg, r, s, n) ==
    LET roomUsers == IF RegistryHas(reg, r) THEN reg[r] ELSE << >>
    IN  RegistrySet(reg, r, MapSet(roomUsers, s, [userName |-> n, socketId |-> s]))

\* Array.from(roomUsers.values()), the roster sent to the joiner
UsersInRoom(roomUsers, s) == roomUsers

\* faulty variant: io.to(roomId), which reaches the joiner as well
NotifyJoinedAll(out, s, r, n) ==
    EmitSelf(EmitTo(out, s, r, Msg("user-joined", s, n, Undefined, << >>, Undefined)),
             s, Msg("user-joined", s, n, Undefined, << >>, Undefined))

\* the user-joined notice
NotifyJoined(out, s, r, n) ==
    EmitTo(out, s, r, Msg("user-joined", s, n, Undefined, << >>, Undefined))

\* join-room, from the lookup's answer to `await Room.findByIdAndUpdate(...)`
JoinResume(j) ==
    /\ BagIn(j, joins)
    /\ j.pc = "resume"
    /\ LET s == j.socket
           r == j.roomId
           previousRoom == socketRoomId[s]
           left == LeavePrevious(activeRooms, previousRoom, s)
           reg == AddUser(left, r, s, j.userName)
           out1 == LeavePreviousEmits(activeRooms, previousRoom, s)
           out2 == EmitSelf(out1, s,
                            Msg("room-users", Undefined, Undefined, Undefined,
                                UsersInRoom(reg[r], s), Undefined))
       IN  /\ sioRooms' = [sioRooms EXCEPT ![s] =
                             IF previousRoom # Undefined
                             THEN (@ \ {previousRoom}) \cup {r}
                             ELSE @ \cup {r}]
           /\ socketRoomId' = [socketRoomId EXCEPT ![s] = r]
           /\ socketUserName' = [socketUserName EXCEPT ![s] = j.userName]
           /\ activeRooms' = reg
           /\ sent' = NotifyJoined(out2, s, r, j.userName)
           /\ dbCalls' = <<DbCall("findByIdAndUpdate", r, Len(reg[r]))>>
           /\ joins' = (joins (-) One(j)) (+)
                       One(Join(s, Undefined, Undefined, "findByIdAndUpdate"))
           /\ lastOp' = [OpLeft("joined", s, r, previousRoom, Undefined,
                                LeftRoom(activeRooms, previousRoom, s),
                                Emptied(activeRooms, previousRoom, s))
                          EXCEPT !.room = j.room]
    /\ UNCHANGED <<connected, roomDocs, nJoins, dbWrites>>

\* the participant-count update answers: stored, or a rejection that the
\* handler's catch turns into an error event
UpdateReturns(j, failed) ==
    /\ BagIn(j, joins)
    /\ j.pc = "findByIdAndUpdate"
    /\ joins' = joins (-) One(j)
    /\ sent' = IF failed
               THEN EmitSelf(NoSent, j.socket,
                             Msg("error", Undefined, Undefined, Undefined, << >>,
                                 "Failed to join room"))
               ELSE NoSent
    /\ dbCalls' = << >>
    /\ lastOp' = Op(IF failed THEN "join-update-failed" ELSE "join-done",
                    j.socket, Undefined, Undefined, Undefined)
    /\ UNCHANGED <<connected, socketRoomId, socketUserName, sioRooms, activeRooms,
                   roomDocs, nJoins, dbWrites>>

\* --------------------------------------------------------------- disconnect
\* the registry after the disconnect handler
DisconnectLeave(reg, room, s) ==
    IF room # Undefined /\ RegistryHas(reg, room)
    THEN LET roomUsers == MapDelete(reg[room], s)
         IN  IF Len(roomUsers) = 0
             THEN RegistryDelete(reg, room)
             ELSE RegistrySet(reg, room, roomUsers)
    ELSE reg

\* the Room call the disconnect handler issues
DisconnectDbCalls(reg, room, s) ==
    IF room # Undefined /\ RegistryHas(reg, room)
    THEN LET roomUsers == MapDelete(reg[room], s)
         IN  IF Len(roomUsers) = 0
             THEN <<DbCall("findByIdAndDelete", room, 0)>>
             ELSE <<DbCall("findByIdAndUpdate", room, Len(roomUsers))>>
    ELSE << >>

\* the user-left the disconnect handler emits
DisconnectEmits(reg, room, s, n) ==
    IF /\ room # Undefined
       /\ RegistryHas(reg, room)
       /\ Len(MapDelete(reg[room], s)) # 0
    THEN EmitTo(NoSent, s, room, Msg("user-left", s, n, Undefined, << >>, Undefined))
    ELSE NoSent

\* the transport closes: socket.io takes the socket out of its rooms, then
\* runs the disconnect handler up to its await
Disconnect(s) ==
    /\ connected[s] = "live"
    /\ connected' = [connected EXCEPT ![s] = "closed"]
    /\ sioRooms' = [sioRooms EXCEPT ![s] = {}]
    /\ activeRooms' = DisconnectLeave(activeRooms, socketRoomId[s], s)
    /\ sent' = DisconnectEmits(activeRooms, socketRoomId[s], s, socketUserName[s])
    /\ dbCalls' = DisconnectDbCalls(activeRooms, socketRoomId[s], s)
    /\ dbWrites' = dbWrites \cup {dbCalls'[i].roomId : i \in
                                    {k \in DOMAIN dbCalls' : dbCalls'[k].op = "findByIdAndDelete"}}
    /\ lastOp' = OpLeft("disconnect", s, socketRoomId[s], Undefined, Undefined,
                        LeftRoom(activeRooms, socketRoomId[s], s),
                        Emptied(activeRooms, socketRoomId[s], s))
    /\ UNCHANGED <<socketRoomId, socketUserName, roomDocs, joins, nJoins>>

\* the collection answers the delete a disconnect handler issued (nothing in
\* the handler follows the await; a rejection is dropped)
DeleteReturns(r, failed) ==
    /\ r \in dbWrites
    /\ dbWrites' = dbWrites \ {r}
    /\ roomDocs' = IF failed THEN roomDocs ELSE FindByIdAndDelete(roomDocs, r)
    /\ sent' = NoSent
    /\ dbCalls' = << >>
    /\ lastOp' = Op("db-delete", Undefined, Undefined, Undefined, Undefined)
    /\ UNCHANGED <<connected, socketRoomId, socketUserName, sioRooms, activeRooms,
                   joins, nJoins>>

\* ---------------------------------------------------------------- signaling
Targets == SocketIds \cup RoomIds \cup {Stranger}

\* socket.on('offer'): relayed with the sender's id and userName
Offer(s, target, payload) ==
    /\ connected[s] = "live"
    /\ sent' = EmitTo(NoSent, s, target,
                      Msg("offer", s, socketUserName[s], payload, << >>, Undefined))
    /\ dbCalls' = << >>
    /\ lastOp' = Op("offer", s, Undefined, target, payload)
    /\ UNCHANGED <<connected, socketRoomId, socketUserName, sioRooms, activeRooms,
                   roomDocs, joins, nJoins, dbWrites>>

\* faulty variant: the target is taken for the sender's room
AnswerAdoptsTarget(s, target, payload) ==
    /\ connected[s] = "live"
    /\ socketRoomId' = [socketRoomId EXCEPT ![s] = target]
    /\ sent' = EmitTo(NoSent, s, target,
                      Msg("answer", s, Undefined, payload, << >>, Undefined))
    /\ dbCalls' = << >>
    /\ lastOp' = Op("answer", s, Undefined, target, payload)
    /\ UNCHANGED <<connected, socketUserName, sioRooms, activeRooms,
                   roomDocs, joins, nJoins, dbWrites>>

\* socket.on('answer')
Answer(s, target, payload) ==
    /\ connected[s] = "live"
    /\ sent' = EmitTo(NoSent, s, target,
                      Msg("answer", s, Undefined, payload, << >>, Undefined))
    /\ dbCalls' = << >>
    /\ lastOp' = Op("answer", s, Undefined, target, payload)
    /\ UNCHANGED <<connected, socketRoomId, socketUserName, sioRooms, activeRooms,
                   roomDocs, joins, nJoins, dbWrites>>

\* socket.on('ice-candidate')
IceCandidate(s, target, payload) ==
    /\ connected[s] = "live"
    /\ sent' = EmitTo(NoSent, s, target,
                      Msg("ice-candidate", s, Undefined, payload, << >>, Undefined))
    /\ dbCalls' = << >>
    /\ lastOp' = Op("ice-candidate", s, Undefined, target, payload)
    /\ UNCHANGED <<connected, socketRoomId, socketUserName, sioRooms, activeRooms,
                   roomDocs, joins, nJoins, dbWrites>>

\* faulty variant: socket.broadcast.emit, every connected socket but the sender
ScreenShareStartedToAll(s) ==
    /\ connected[s] = "live"
    /\ sent' = [t \in SocketIds |->
                 IF t # s /\ connected[t] = "live"
                 THEN <<Msg("screen-share-started", s, socketUserName[s], Undefined,
                            << >>, Undefined)>>
                 ELSE << >>]
    /\ dbCalls' = << >>
    /\ lastOp' = Op("screen-share-started", s, socketRoomId[s], Undefined, Undefined)
    /\ UNCHANGED <<connected, socketRoomId, socketUserName, sioRooms, activeRooms,
                   roomDocs, joins, nJoins, dbWrites>>

\* socket.on('screen-share-started')
ScreenShareStarted(s) ==
    /\ connected[s] = "live"
    /\ sent' = EmitTo(NoSent, s, socketRoomId[s],
                      Msg("screen-share-started", s, socketUserName[s], Undefined,
                          << >>, Undefined))
    /\ dbCalls' = << >>
    /\ lastOp' = Op("screen-share-started", s, socketRoomId[s], Undefined, Undefined)
    /\ UNCHANGED <<connected, socketRoomId, socketUserName, sioRooms, activeRooms,
                   roomDocs, joins, nJoins, dbWrites>>

\* socket.on('screen-share-stopped')
ScreenShareStopped(s) ==
    /\ connected[s] = "live"
    /\ sent' = EmitTo(NoSent, s, socketRoomId[s],
                      Msg("screen-share-stopped", s, Undefined, Undefined, << >>,
                          Undefined))
    /\ dbCalls' = << >>
    /\ lastOp' = Op("screen-share-stopped", s, socketRoomId[s], Undefined, Undefined)
    /\ UNCHANGED <<connected, socketRoomId, socketUserName, sioRooms, activeRooms,
                   roomDocs, joins, nJoins, dbWrites>>

\* ------------------------------------------------------------ specification
\* the handlers that change the registry, the sockets or the collection
Lifecycle ==
    \/ \E s \in SocketIds : Connect(s)
    \/ \E s \in SocketIds, r \in RoomIds : JoinRoom(s, r, UserNameOf[s])
    \/ \E j \in BagToSet(joins) : FindByIdReturns(j)
    \/ \E j \in BagToSet(joins), failed \in BOOLEAN : JoinDenied(j, failed)
    \/ \E j \in BagToSet(joins) : JoinResume(j)
    \/ \E j \in BagToSet(joins), failed \in BOOLEAN : UpdateReturns(j, failed)
    \/ \E s \in SocketIds : Disconnect(s)
    \/ \E r \in dbWrites, failed \in BOOLEAN : DeleteReturns(r, failed)

\* the relay handlers, which only emit
Relay ==
    \/ \E s \in SocketIds, t \in Targets, p \in Payloads : Offer(s, t, p)
    \/ \E s \in SocketIds, t \in Targets, p \in Payloads : Answer(s, t, p)
    \/ \E s \in SocketIds, t \in Targets, p \in Payloads : IceCandidate(s, t, p)
    \/ \E s \in SocketIds : ScreenShareStarted(s)
    \/ \E s \in SocketIds : ScreenShareStopped(s)

Next == Lifecycle

Spec == Init /\ [][Next]_vars

\* join-room events received in one run with relaying
MaxRelayJoins == 2

RelayEvents == {"offer", "answer", "ice-candidate", "screen-share-started",
                "screen-share-stopped"}

RelayTurn == lastOp.name \notin RelayEvents

\* The handlers with the relay handlers among them. A relay handler reads
\* nothing an earlier relay handler wrote and changes only sent, dbCalls and
\* lastOp, so two relay events in a row reach no state that the second alone
\* does not reach: relay events are taken after a lifecycle step.
NextRelay ==
    \/ \E s \in SocketIds : Connect(s)
    \/ \E s \in SocketIds, r \in RoomIds :
          nJoins < MaxRelayJoins /\ JoinRoom(s, r, UserNameOf[s])
    \/ \E j \in BagToSet(joins) : FindByIdReturns(j)
    \/ \E j \in BagToSet(joins), failed \in BOOLEAN : JoinDenied(j, failed)
    \/ \E j \in BagToSet(joins) : JoinResume(j)
    \/ \E j \in BagToSet(joins), failed \in BOOLEAN : UpdateReturns(j, failed)
    \/ \E s \in SocketIds : Disconnect(s)
    \/ \E r \in dbWrites, failed \in BOOLEAN : DeleteReturns(r, failed)
    \/ \E s \in SocketIds, t \in Targets, p \in Payloads : RelayTurn /\ Offer(s, t, p)
    \/ \E s \in SocketIds, t \in Targets, p \in Payloads : RelayTurn /\ Answer(s, t, p)
    \/ \E s \in SocketIds, t \in Targets, p \in Payloads :
          RelayTurn /\ IceCandidate(s, t, p)
    \/ \E s \in SocketIds : RelayTurn /\ ScreenShareStarted(s)
    \/ \E s \in SocketIds : RelayTurn /\ ScreenShareStopped(s)

SpecRelay == Init /\ [][NextRelay]_vars

\* ------------------------------------------------------------- the REST API
\* router.delete('/:roomId'), "Delete/end room": the host's request marks the
\* room's document as ended (isActive = false); the document stays in the
\* collection. A request for a room with no document answers 404.
DeleteRoom(r) ==
    /\ roomDocs[r] \in {"active", "inactive"}
    /\ roomDocs' = [roomDocs EXCEPT ![r] = "inactive"]
    /\ sent' = NoSent
    /\ dbCalls' = << >>
    /\ lastOp' = Op("delete-room", Undefined, r, Undefined, Undefined)
    /\ UNCHANGED <<connected, socketRoomId, socketUserName, sioRooms, activeRooms,
                   joins, nJoins, dbWrites>>

\* the socket handlers next to the route that ends a room
NextRoutes ==
    \/ Lifecycle
    \/ \E r \in RoomIds : DeleteRoom(r)

SpecRoutes == Init /\ [][NextRoutes]_vars


\* ------------------------------------------------- a duplicate close notice
\* socket.on('disconnect', ...) run once more for a socket whose transport has
\* closed already: the same handler body, on the fields the first run left
DisconnectAgain(s) ==
    /\ connected[s] = "closed"
    /\ activeRooms' = DisconnectLeave(activeRooms, socketRoomId[s], s)
    /\ sent' = DisconnectEmits(activeRooms, socketRoomId[s], s, socketUserName[s])
    /\ dbCalls' = DisconnectDbCalls(activeRooms, socketRoomId[s], s)
    /\ dbWrites' = dbWrites \cup {dbCalls'[i].roomId : i \in
                                    {k \in DOMAIN dbCalls' : dbCalls'[k].op = "findByIdAndDelete"}}
    /\ lastOp' = OpLeft("disconnect-again", s, socketRoomId[s], Undefined, Undefined,
                        LeftRoom(activeRooms, socketRoomId[s], s),
                        Emptied(activeRooms, socketRoomId[s], s))
    /\ UNCHANGED <<connected, sioRooms, socketRoomId, socketUserName, roomDocs,
                   joins, nJoins>>

NextAgain ==
    \/ Lifecycle
    \/ \E s \in SocketIds : DisconnectAgain(s)

SpecAgain == Init /\ [][NextAgain]_vars

\* ----------------------------------------------------------------- progress
\* What the event loop and the collection guarantee: a handler whose awaited
\* promise has settled is resumed, and an update or delete that was issued is
\* answered. Nothing in the handler bounds the time a lookup may take, so the
\* answer to Room.findById (FindByIdReturns, JoinDenied) carries no fairness.
SpecLive ==
    /\ Init
    /\ [][Next]_vars
    /\ WF_vars(\E j \in BagToSet(joins) : JoinResume(j))
    /\ WF_vars(\E j \in BagToSet(joins), failed \in BOOLEAN : UpdateReturns(j, failed))
    /\ WF_vars(\E r \in dbWrites, failed \in BOOLEAN : DeleteReturns(r, failed))

\* ================================================================== claims
\* roomUsers.size of a room, 0 for a room the registry does not hold
Occupancy(reg, r) == IF RegistryHas(reg, r) THEN Len(reg[r]) ELSE 0

\* the rooms whose Map holds socket s
RoomsOf(reg, s) == {r \in DOMAIN reg : MapHas(reg[r], s)}

\* the positions of the events named `event` in a socket's outbox
Events(out, event) == {i \in DOMAIN out : out[i].event = event}

DirectedEvents == {"offer", "answer", "ice-candidate"}

\* C1: a room id is a key of the registry iff its participant Map holds at
\* least one entry; the registry never holds an empty Map.
RoomPresentIffNonEmpty ==
    \A r \in RoomIds : RegistryHas(activeRooms, r) <=> Occupancy(activeRooms, r) >= 1

\* C1 witness: a disconnect has just taken the last participant out of a room
LastParticipantDisconnected ==
    /\ lastOp.name = "disconnect"
    /\ lastOp.emptied
    /\ ~RegistryHas(activeRooms, lastOp.left)

\* C2: every socket id is in at most one room's Map, also while joins of the
\* same socket wait for their lookup.
AtMostOneRoom ==
    \A s \in SocketIds : Cardinality(RoomsOf(activeRooms, s)) <= 1

\* C2 witness: a socket has just moved from one room to another while another
\* join-room of the same socket is waiting
SwitchedWhileJoinPending ==
    /\ lastOp.name = "joined"
    /\ lastOp.left # Undefined
    /\ lastOp.left # lastOp.roomId
    /\ \E j \in BagToSet(joins) : j.socket = lastOp.socket /\ j.pc \in {"findById", "resume"}

\* C3 (as claimed): socket.roomId names the one room whose Map holds the
\* socket, or is undefined and no Map holds it; also after disconnect.
RoomIdMatchesRegistry ==
    \A s \in SocketIds :
        RoomsOf(activeRooms, s) =
            IF socketRoomId[s] = Undefined THEN {} ELSE {socketRoomId[s]}

\* C4 (as claimed): the room-users roster emitted to a joiner holds no entry
\* with the joiner's own socket id.
RosterExcludesJoiner ==
    lastOp.name = "joined" =>
        \A i \in Events(sent[lastOp.socket], "room-users") :
            ~MapHas(sent[lastOp.socket][i].users, lastOp.socket)

\* C5: when A joins room R, every live socket B already in R's Map is emitted
\* exactly one user-joined, carrying A's id and display name; A is emitted no
\* user-joined; the one roster emitted to A holds exactly one entry for B.
JoinNotifiesOnce ==
    lastOp.name = "joined" =>
        LET A == lastOp.socket
            R == lastOp.roomId
        IN  /\ Events(sent[A], "user-joined") = {}
            /\ Cardinality(Events(sent[A], "room-users")) = 1
            /\ \A B \in SocketIds \ {A} :
                 (connected[B] = "live" /\ MapHas(activeRooms[R], B)) =>
                    /\ Cardinality(Events(sent[B], "user-joined")) = 1
                    /\ \A i \in Events(sent[B], "user-joined") :
                         sent[B][i] = Msg("user-joined", A, UserNameOf[A], Undefined,
                                          << >>, Undefined)
                    /\ \A i \in Events(sent[A], "room-users") :
                         Cardinality({k \in DOMAIN sent[A][i].users :
                                        sent[A][i].users[k].socketId = B}) = 1

\* C5 witness: a socket has just joined a room that held a live participant
JoinedOccupiedRoom ==
    /\ lastOp.name = "joined"
    /\ \E B \in SocketIds \ {lastOp.socket} :
         connected[B] = "live" /\ MapHas(activeRooms[lastOp.roomId], B)

\* what a directed event relays: the same event name and payload, the sender's
\* id, and for an offer the sender's display name
Relayed(name, s, payload) ==
    Msg(name, s, IF name = "offer" THEN socketUserName[s] ELSE Undefined, payload,
        << >>, Undefined)

\* C6: a directed event from A whose target is the id of a live socket B # A is
\* emitted to B exactly once, payload unchanged and tagged with A's id, and to
\* no other socket, whatever rooms A and B are in.
DirectedReachesTargetOnly ==
    (/\ lastOp.name \in DirectedEvents
     /\ lastOp.target \in SocketIds \ {lastOp.socket}
     /\ connected[lastOp.target] = "live") =>
        \A t \in SocketIds :
            sent[t] = IF t = lastOp.target
                      THEN <<Relayed(lastOp.name, lastOp.socket, lastOp.payload)>>
                      ELSE << >>

\* C6 witness: an offer to a live socket in another room than the sender's,
\* with a third live socket in the sender's room
OfferAcrossRooms ==
    /\ lastOp.name = "offer"
    /\ lastOp.target \in SocketIds \ {lastOp.socket}
    /\ connected[lastOp.target] = "live"
    /\ socketRoomId[lastOp.socket] # Undefined
    /\ socketRoomId[lastOp.target] # socketRoomId[lastOp.socket]
    /\ \E c \in SocketIds \ {lastOp.socket, lastOp.target} :
         connected[c] = "live" /\ socketRoomId[c] = socketRoomId[lastOp.socket]

\* C7 (as claimed): a directed event whose target is not the id of a live
\* socket is emitted to no socket at all.
DeadTargetReachesNobody ==
    (/\ lastOp.name \in DirectedEvents
     /\ ~(lastOp.target \in SocketIds /\ connected[lastOp.target] = "live")) =>
        \A t \in SocketIds : sent[t] = << >>

\* C8 (as claimed): when the last participant leaves room R, by disconnect or
\* by joining another room, R is gone from the registry and exactly one
\* findByIdAndDelete for R is issued.
LastLeaveDeletesRoomOnce ==
    (/\ lastOp.name \in {"disconnect", "joined"}
     /\ lastOp.emptied
     /\ lastOp.left # Undefined
     /\ lastOp.name = "joined" => lastOp.left # lastOp.roomId) =>
        /\ ~RegistryHas(activeRooms, lastOp.left)
        /\ Cardinality({i \in DOMAIN dbCalls :
                          /\ dbCalls[i].op = "findByIdAndDelete"
                          /\ dbCalls[i].roomId = lastOp.left}) = 1

\* C9: a join of room y by a socket A that is in room x # y takes the registry
\* in one step from A in x only to A in y only; x loses exactly one participant
\* (and is removed if that empties it), y gains exactly one.
SwitchIsAtomic ==
    [][lastOp'.name = "joined" =>
         LET A == lastOp'.socket
             y == lastOp'.roomId
         IN  \A x \in RoomIds \ {y} :
                 x \in RoomsOf(activeRooms, A) =>
                    /\ RoomsOf(activeRooms, A) = {x}
                    /\ RoomsOf(activeRooms', A) = {y}
                    /\ Occupancy(activeRooms', x) = Occupancy(activeRooms, x) - 1
                    /\ Occupancy(activeRooms', y) = Occupancy(activeRooms, y) + 1
                    /\ RegistryHas(activeRooms', x) <=> Occupancy(activeRooms, x) > 1
                    /\ \A z \in RoomIds \ {x, y} :
                         Occupancy(activeRooms', z) = Occupancy(activeRooms, z)]_vars

\* C9 witness: a socket has just moved from a room that still has participants
\* to another room
SwitchedLeavingOthers ==
    /\ lastOp.name = "joined"
    /\ lastOp.left # Undefined
    /\ lastOp.left # lastOp.roomId
    /\ RegistryHas(activeRooms, lastOp.left)

\* C10: a join-room whose lookup answers null or rejects changes nothing: the
\* registry, every socket's roomId, userName and adapter rooms and the
\* collection stay as they were, no Room call is issued, and exactly one error
\* event is emitted, to the requesting socket only.
DeniedJoinChangesNothing ==
    [][lastOp'.name \in {"join-not-found", "join-failed"} =>
         /\ UNCHANGED <<activeRooms, socketRoomId, socketUserName, sioRooms,
                        connected, roomDocs, dbWrites>>
         /\ dbCalls' = << >>
         /\ \A t \in SocketIds :
              IF t = lastOp'.socket
              THEN /\ Len(sent'[t]) = 1
                   /\ sent'[t][1].event = "error"
              ELSE sent'[t] = << >>]_vars

\* C10 witness: a join-room of a socket that is in a room has just been denied
\* because the room's document is gone
DeniedWhileInARoom ==
    /\ lastOp.name = "join-not-found"
    /\ RoomsOf(activeRooms, lastOp.socket) # {}

\* C11 (as claimed): a join-room whose lookup answered a document that is
\* inactive (ended through the delete route) is denied: the socket is emitted
\* an error, is not put into the room's Map, and no other socket is notified.
InactiveRoomJoinDenied ==
    (lastOp.name = "joined" /\ lastOp.room = "inactive") =>
        /\ Events(sent[lastOp.socket], "error") # {}
        /\ lastOp.roomId \notin RoomsOf(activeRooms, lastOp.socket)
        /\ \A t \in SocketIds \ {lastOp.socket} : sent[t] = << >>

\* C12 (as claimed): a second run of the disconnect handler for the same
\* socket is a no-op: it changes neither the registry nor any socket's state,
\* emits nothing and issues no Room call, also when other participants remain
\* in the room the socket had joined.
SecondDisconnectIsNoOp ==
    [][lastOp'.name = "disconnect-again" =>
         /\ UNCHANGED <<activeRooms, connected, socketRoomId, socketUserName, sioRooms>>
         /\ sent' = NoSent
         /\ dbCalls' = << >>]_vars

\* the join-room invocations of socket s whose handler has not yet run its
\* segment after the lookup
PendingJoinsOf(s) ==
    {j \in BagToSet(joins) : j.socket = s /\ j.pc \in {"findById", "resume"}}

\* C13 (as claimed): a socket that has disconnected, and has no join-room
\* still to resume, is in no room's Map (and so in no roster of a later
\* joiner): a join that was waiting for its lookup when the disconnect was
\* handled leaves no entry behind.
NoGhostMembership ==
    \A s \in SocketIds :
        (connected[s] = "closed" /\ PendingJoinsOf(s) = {}) =>
            RoomsOf(activeRooms, s) = {}

\* C14 (as claimed): when the participant-count update of a join is rejected,
\* the joiner is emitted no error event (and the membership stays as the join
\* made it).
UpdateFailureIsSilent ==
    lastOp.name = "join-update-failed" =>
        Events(sent[lastOp.socket], "error") = {}

\* a join-room of socket s for room r has not yet been answered with a roster
\* or an error
Waiting(s, r) == \E j \in PendingJoinsOf(s) : j.roomId = r

\* C15 (as claimed): every join-room is eventually answered, with a completed
\* join or an error event, also when its lookup is never answered.
JoinEventuallyCompletes ==
    \A s \in SocketIds, r \in RoomIds : Waiting(s, r) ~> ~Waiting(s, r)

\* C16 (as claimed): the lookup and the insert of a join are one step with
\* respect to the delete another socket's last-occupant disconnect issues for
\* the same room: no join of a connected socket completes, putting the socket
\* into the room's Map, when the room's document has been deleted.
JoinedRoomHasDocument ==
    (lastOp.name = "joined" /\ connected[lastOp.socket] = "live") =>
        roomDocs[lastOp.roomId] # "deleted"

\* the last segment took its socket out of a room that still has participants
\* (a join of the room the socket is in already is no leave)
LeftNonEmptyRoom ==
    /\ lastOp.name \in {"disconnect", "joined"}
    /\ lastOp.left # Undefined
    /\ ~lastOp.emptied
    /\ lastOp.name = "joined" => lastOp.left # lastOp.roomId

\* C17 (as claimed): when a socket leaves a room that stays non-empty, by
\* disconnect or by joining another room, every live participant that remains
\* is emitted exactly one user-left carrying the leaver's socket id and
\* display name, and no other socket is emitted a user-left.
LeaveNotifiesRemaining ==
    LeftNonEmptyRoom =>
        \A t \in SocketIds :
            IF /\ t # lastOp.socket
               /\ connected[t] = "live"
               /\ MapHas(activeRooms[lastOp.left], t)
            THEN /\ Cardinality(Events(sent[t], "user-left")) = 1
                 /\ \A i \in Events(sent[t], "user-left") :
                      /\ sent[t][i].socketId = lastOp.socket
                      /\ sent[t][i].userName = UserNameOf[lastOp.socket]
            ELSE Events(sent[t], "user-left") = {}

\* the findByIdAndUpdate calls the last segment issued for room r
UpdatesFor(r) ==
    {i \in DOMAIN dbCalls : dbCalls[i].op = "findByIdAndUpdate" /\ dbCalls[i].roomId = r}

\* the last segment issued exactly one participant-count update for room r,
\* with the size r's Map has now
ReportedOnce(r) ==
    /\ Cardinality(UpdatesFor(r)) = 1
    /\ \A i \in UpdatesFor(r) : dbCalls[i].participants = Occupancy(activeRooms, r)

\* C18 (as claimed): after a membership change that leaves a room non-empty
\* (a join into it, a disconnect from it, a switch away from it) exactly one
\* participant-count update is issued for that room, with the room's size
\* right after the change.
OccupancyReported ==
    /\ lastOp.name = "joined" => ReportedOnce(lastOp.roomId)
    /\ LeftNonEmptyRoom => ReportedOnce(lastOp.left)

ScreenShareEvents == {"screen-share-started", "screen-share-stopped"}

\* the live sockets other than s in the room whose Map holds s
RoomMates(s) ==
    {t \in SocketIds \ {s} :
        /\ connected[t] = "live"
        /\ \E r \in RoomsOf(activeRooms, s) : MapHas(activeRooms[r], t)}

\* what a screen-share event relays: the sender's id, and for
\* screen-share-started the sender's display name
Shared(name, s) ==
    Msg(name, s, IF name = "screen-share-started" THEN socketUserName[s] ELSE Undefined,
        Undefined, << >>, Undefined)

\* C19: a screen-share-started or screen-share-stopped from socket A is
\* emitted once to every other live participant of the room A is in, and to
\* no other socket: not to A, not to a socket in another room or in none;
\* when A is in no room it is emitted to nobody.
ScreenShareReachesRoomMates ==
    lastOp.name \in ScreenShareEvents =>
        \A t \in SocketIds :
            sent[t] = IF t \in RoomMates(lastOp.socket)
                      THEN <<Shared(lastOp.name, lastOp.socket)>>
                      ELSE << >>

\* C19 witness: a socket that shares a room with a live participant has just
\* started a screen share while a live socket outside that room exists
SharedWithRoomMate ==
    /\ lastOp.name = "screen-share-started"
    /\ RoomMates(lastOp.socket) # {}
    /\ \E c \in SocketIds \ ({lastOp.socket} \cup RoomMates(lastOp.socket)) :
         connected[c] = "live"

\* C20: offer, answer, ice-candidate, screen-share-started and
\* screen-share-stopped leave the registry, every socket's roomId and
\* userName and the collection as they were and issue no Room call, whether
\* or not the sender has joined a room and whatever the payload.
RelayChangesNothing ==
    [][lastOp'.name \in RelayEvents =>
         /\ UNCHANGED <<activeRooms, socketRoomId, socketUserName, roomDocs, dbWrites>>
         /\ dbCalls' = << >>]_vars

\* C20 witness: a socket in a room has just sent an answer while another live
\* socket is in no room
AnswerFromJoinedSocket ==
    /\ lastOp.name = "answer"
    /\ RoomsOf(activeRooms, lastOp.socket) # {}
    /\ \E t \in SocketIds \ {lastOp.socket} :
         connected[t] = "live" /\ RoomsOf(activeRooms, t) = {}

====
